---- MODULE Spec2Model ----
(***************************************************************************)
(* Verification model of the two backend services of the repository:       *)
(*   - the workflow execution engine (workflow-engine.ts, step-processor,  *)
(*     the cancel route), specification Spec;                              *)
(*   - the versioned site build and serve pipeline (build-engine.ts,       *)
(*     build-processor.ts, site-resolver.ts), specification BuilderSpec.   *)
(* Every await between two database operations that other processes can   *)
(* observe is a separate action; consecutive reads, and writes whose       *)
(* intermediate states no other operation distinguishes, are one action.   *)
(***************************************************************************)
EXTENDS Integers, Sequences, FiniteSets, Bags, TLC

(* ----------------------------- bounds ---------------------------------- *)
\* step jobs processed concurrently (the worker's concurrency; the code sets 10)
NumWorkers == 2
\* how many times the queue hands out a job a second time (at-least-once)
MaxRedeliver == 1
\* cancel requests issued for the run
MaxCancels == 1
\* executor invocations counted per step and attempt before the count saturates
ExecCap == 2
\* step events counted per step and type, in the event log and on the push
\* bus, before the count saturates
EventCap == 2

\* site versions created by Publish
MaxVersions == 2
\* how many times the build queue hands out a build job a second time
MaxBuildRedeliver == 1
\* rollback requests issued for the site
MaxRollbacks == 2
\* the step by which the resolver's clock advances, in ms
TickMs == 15000
\* published pages of the site
NumPages == 1

(* ------------------------ program constants ---------------------------- *)
\* workflow engine: config.workflow
maxRetries == 3
retryBaseDelayMs == 1000
\* site builder: retries of processBuildJob, attempts of the build queue,
\* concurrency of the build worker, lifetime of a resolver cache entry
MAX_RETRIES == 3
attempts == 3
concurrency == 2
CACHE_TTL_MS == 30000

(* ----------------------- workflow definitions -------------------------- *)
Keys == {"a", "b", "c", "d"}
NoKey == "-"

\* The workflow definitions a run is started on.  Each one but "dangling"
\* passes validateDefinitionGraph; "dangling" is a definition stored without
\* it (startRun itself checks only the entrypoint).  Node types decide what the executor can do:
\* TRANSFORM (with a template), CONDITION (with an expression) and DELAY
\* never throw; HTTP_REQUEST and WEBHOOK throw when fetch fails, which it does
\* on every attempt for the nodes in "down" (their endpoint is unreachable).
WorkflowIds == {"linear", "cond", "condnext", "retry", "down", "parallel",
                "branchfail", "merge", "delay", "seed", "dangling"}

Definition(id) ==
  CASE id = "linear" ->        \* a -> b -> c
         [entrypoint |-> "a", nodes |-> {"a", "b", "c"},
          type |-> [a |-> "TRANSFORM", b |-> "TRANSFORM", c |-> "TRANSFORM", d |-> NoKey],
          next |-> [a |-> {"b"}, b |-> {"c"}, c |-> {}, d |-> {}],
          trueBranch |-> NoKey, falseBranch |-> NoKey, down |-> {}]
    [] id = "cond" ->          \* a ? b : c
         [entrypoint |-> "a", nodes |-> {"a", "b", "c"},
          type |-> [a |-> "CONDITION", b |-> "TRANSFORM", c |-> "TRANSFORM", d |-> NoKey],
          next |-> [a |-> {}, b |-> {}, c |-> {}, d |-> {}],
          trueBranch |-> "b", falseBranch |-> "c", down |-> {}]
    [] id = "condnext" ->      \* a ? b : c, with both branches listed in a.next
         [entrypoint |-> "a", nodes |-> {"a", "b", "c"},
          type |-> [a |-> "CONDITION", b |-> "TRANSFORM", c |-> "TRANSFORM", d |-> NoKey],
          next |-> [a |-> {"b", "c"}, b |-> {}, c |-> {}, d |-> {}],
          trueBranch |-> "b", falseBranch |-> "c", down |-> {}]
    [] id = "retry" ->         \* a single HTTP_REQUEST node
         [entrypoint |-> "a", nodes |-> {"a"},
          type |-> [a |-> "HTTP_REQUEST", b |-> NoKey, c |-> NoKey, d |-> NoKey],
          next |-> [a |-> {}, b |-> {}, c |-> {}, d |-> {}],
          trueBranch |-> NoKey, falseBranch |-> NoKey, down |-> {}]
    [] id = "down" ->          \* a single HTTP_REQUEST node whose endpoint is down
         [entrypoint |-> "a", nodes |-> {"a"},
          type |-> [a |-> "HTTP_REQUEST", b |-> NoKey, c |-> NoKey, d |-> NoKey],
          next |-> [a |-> {}, b |-> {}, c |-> {}, d |-> {}],
          trueBranch |-> NoKey, falseBranch |-> NoKey, down |-> {"a"}]
    [] id = "parallel" ->      \* a -> {b, c}, c -> d: branches of different length
         [entrypoint |-> "a", nodes |-> {"a", "b", "c", "d"},
          type |-> [a |-> "TRANSFORM", b |-> "TRANSFORM", c |-> "TRANSFORM", d |-> "TRANSFORM"],
          next |-> [a |-> {"b", "c"}, b |-> {}, c |-> {"d"}, d |-> {}],
          trueBranch |-> NoKey, falseBranch |-> NoKey, down |-> {}]
    [] id = "branchfail" ->    \* a -> {b, c}; c is a WEBHOOK
         [entrypoint |-> "a", nodes |-> {"a", "b", "c"},
          type |-> [a |-> "TRANSFORM", b |-> "TRANSFORM", c |-> "WEBHOOK", d |-> NoKey],
          next |-> [a |-> {"b", "c"}, b |-> {}, c |-> {}, d |-> {}],
          trueBranch |-> NoKey, falseBranch |-> NoKey, down |-> {}]
    [] id = "merge" ->         \* a -> {b, c}, b -> d, c -> d
         [entrypoint |-> "a", nodes |-> {"a", "b", "c", "d"},
          type |-> [a |-> "TRANSFORM", b |-> "TRANSFORM", c |-> "TRANSFORM", d |-> "TRANSFORM"],
          next |-> [a |-> {"b", "c"}, b |-> {"d"}, c |-> {"d"}, d |-> {}],
          trueBranch |-> NoKey, falseBranch |-> NoKey, down |-> {}]
    [] id = "delay" ->         \* a (DELAY) -> b
         [entrypoint |-> "a", nodes |-> {"a", "b"},
          type |-> [a |-> "DELAY", b |-> "TRANSFORM", c |-> NoKey, d |-> NoKey],
          next |-> [a |-> {"b"}, b |-> {}, c |-> {}, d |-> {}],
          trueBranch |-> NoKey, falseBranch |-> NoKey, down |-> {}]
    [] id = "seed" ->          \* a -> b; b ? c : a  (the seeded sample workflow)
         [entrypoint |-> "a", nodes |-> {"a", "b", "c"},
          type |-> [a |-> "TRANSFORM", b |-> "CONDITION", c |-> "TRANSFORM", d |-> NoKey],
          next |-> [a |-> {"b"}, b |-> {}, c |-> {}, d |-> {}],
          trueBranch |-> "c", falseBranch |-> "a", down |-> {}]
    [] id = "dangling" ->      \* a -> d, and d is not a key of nodes
         [entrypoint |-> "a", nodes |-> {"a"},
          type |-> [a |-> "TRANSFORM", b |-> NoKey, c |-> NoKey, d |-> NoKey],
          next |-> [a |-> {"d"}, b |-> {}, c |-> {}, d |-> {}],
          trueBranch |-> NoKey, falseBranch |-> NoKey, down |-> {}]
    [] id \in {"condbad", "condthrows", "condmissing"} ->   \* a ? b : c
         [entrypoint |-> "a", nodes |-> {"a", "b", "c"},
          type |-> [a |-> "CONDITION", b |-> "TRANSFORM", c |-> "TRANSFORM", d |-> NoKey],
          next |-> [a |-> {}, b |-> {}, c |-> {}, d |-> {}],
          trueBranch |-> "b", falseBranch |-> "c", down |-> {}]

    [] id = "delays" ->        \* a -> {b, c, d}; b and c are DELAY nodes
         [entrypoint |-> "a", nodes |-> {"a", "b", "c", "d"},
          type |-> [a |-> "TRANSFORM", b |-> "DELAY", c |-> "DELAY", d |-> "TRANSFORM"],
          next |-> [a |-> {"b", "c", "d"}, b |-> {}, c |-> {}, d |-> {}],
          trueBranch |-> NoKey, falseBranch |-> NoKey, down |-> {}]

\* The workflows whose CONDITION node has an expression that cannot be
\* evaluated: "condbad" has one that is no JavaScript expression, "condthrows"
\* one that reads a property of a missing value, "condmissing" has none.
ConditionWorkflowIds == {"condbad", "condthrows", "condmissing"}

\* config.expression of the CONDITION nodes of a workflow: how its
\* evaluation ends ("valid": with a value that depends on the input)
Expression(id) ==
  CASE id = "condbad" -> "malformed"
    [] id = "condthrows" -> "throws"
    [] id = "condmissing" -> "missing"
    [] OTHER -> "valid"

\* executeStepByType: the node types whose executor can throw
CanThrow(t) == t \in {"AI_COMPLETION", "HTTP_REQUEST", "WEBHOOK"}

RunStatuses == {"NONE", "PENDING", "RUNNING", "COMPLETED", "FAILED", "CANCELLED"}
TerminalRun == {"COMPLETED", "FAILED", "CANCELLED"}
TerminalStep == {"COMPLETED", "SKIPPED", "FAILED"}

VARIABLES
  wf,           \* the workflow the run executes
  startPc,      \* startRun: "init", "created" (transaction done), "done"
  runStatus,    \* WorkflowRun.status ("NONE": no run record yet)
  runError,     \* WorkflowRun.error
  stepStatus,   \* WorkflowStep.status per step key ("NONE": no record)
  retryCount,   \* WorkflowStep.retryCount per step key
  queue,        \* the workflow-steps queue: a bag of [stepKey, delay] jobs
  redelivered,  \* jobs the queue has handed out a second time
  inflight,     \* the processStep invocations in progress: a bag of
                \* [pc, stepKey, rc]; rc is step.retryCount as handleStepError read it
  execs,        \* executor invocations per step key and attempt (capped)
  evCount,      \* run events appended to the event log, per type
  retryEvents,  \* step.retry events: <<stepKey, retryCount, delayMs>>
  cancelPc,     \* cancel route: "idle", or "txn" once it has read the run
  cancels,      \* cancel requests issued
  cancelSeen,   \* what the cancel transactions found: whether startRun had
                \* finished, and the steps they marked SKIPPED
  stepEvents,   \* step events appended to the event log, per type and step key
  busStep,      \* step events the worker handed to wsService.broadcast, per
                \* type and step key
  busRun,       \* run events the worker handed to wsService.broadcast, per type
  runOutput,    \* WorkflowRun.output: the key of the step whose output
                \* completeRun stored
  startedOn     \* the definition from whose nodes startRun created the Step
                \* records (NoKey: no run yet)

wvars == <<wf, startPc, runStatus, runError, stepStatus, retryCount, queue,
           redelivered, inflight, execs, evCount, retryEvents, cancelPc, cancels,
           cancelSeen, stepEvents, busStep, busRun, runOutput, startedOn>>

VARIABLES
  activeVersionId, \* Site.activeVersionId (0: null)
  versionStatus,   \* SiteVersion.status per version id ("NONE": not created)
  jobStatus,       \* BuildJob.status of the build job of each version
  jobRetryCount,   \* BuildJob.retryCount
  buildQueue,      \* the site-builds queue: the build jobs waiting
  attemptsMade,    \* the queue's count of failed attempts per job
  builds,          \* the processBuildJob invocations in progress: a bag of
                   \* [pc, job, siteActive, done]; siteActive is
                   \* site.activeVersionId as executeBuild read it, done the
                   \* number of artifacts this execution has uploaded
  buildRedelivered,\* build jobs the queue has handed out a second time
  rollbackPc,      \* rollback: "idle", or "txn" once it has read the target
  rollbackTarget,  \* the version a rollback in progress goes to
  rollbackSeen,    \* targetVersion.status as that rollback read it
  rollbacks,       \* rollback requests issued
  s3,              \* artifacts stored under the prefix of each version: how
                   \* many of its pages, 404.html and manifest.json, in the
                   \* order executeBuild uploads them
  siteCache,       \* the resolver's cache entry of the subdomain:
                   \* [activeVersionId (0: no entry), age in ms]
  lastServe        \* the last serve request: [version it was answered from
                   \* (0: not found), active: activeVersionId when it started,
                   \* path requested, body sent, HTTP status]

bvars == <<activeVersionId, versionStatus, jobStatus, jobRetryCount, buildQueue,
           attemptsMade, builds, buildRedelivered, rollbackPc, rollbackTarget,
           rollbackSeen, rollbacks, s3, siteCache, lastServe>>

VARIABLES
  clients,        \* WebSocketService.clients: per client id its connection
                  \* [connected, subscribedRuns, isAlive]
  lastBroadcast   \* the last broadcast: [runId, recipients it was sent to]

pvars == <<clients, lastBroadcast>>

VARIABLES
  response,       \* the last API response: [tenant of the session, status,
                  \* addressed: the ids in the request, rows: the rows returned]
  writes          \* the rows API requests have modified: <<tenant of the
                  \* session, row id>>

avars == <<response, writes>>

VARIABLES
  body,           \* the definition in the body of a create or update request
  workflowRow,    \* the persisted Workflow row: [definition, version]
  outcome         \* how the request ended

dvars == <<body, workflowRow, outcome>>

VARIABLES
  pages,          \* the Page rows of the site: per page "none" (no row),
                  \* "draft" (isPublished false) or "published"
  publishResult   \* the answer to the last publish request

svars == <<pages, publishResult>>

VARIABLES
  title,          \* Page.title of the page to render
  theme,          \* Site.settings.theme: [primaryColor, fontHeading]
  html            \* the rendered page: a sequence of characters and of
                  \* pieces of the template (<< >>: not rendered yet)

rvars == <<title, theme, html>>

VARIABLES
  proc,           \* the process: one of Processes
  shutdownPc,     \* its shutdown handler: "running" (no signal yet),
                  \* "closing" (worker.close() awaited), "disconnecting",
                  \* "exiting", "exited"
  listening,      \* the process accepts new work (HTTP listener, queue consumer)
  inFlight,       \* requests or jobs the process is in the middle of
  finished,       \* requests or jobs it has finished (capped)
  storeClosed,    \* its store handles (database, Redis) have been closed
  busClosed,      \* its push-bus connections have been closed
  exitCode        \* the code it exited with (NoExit: still running)

gvars == <<proc, shutdownPc, listening, inFlight, finished, storeClosed,
           busClosed, exitCode>>

VARIABLES
  pagePath,       \* Page.path of the published page: a sequence of characters
  s3Key,          \* the key, after the version's prefix, under which the
                  \* build uploaded the page (<< >>: not built)
  servedKey       \* the key, after the prefix, the resolver fetched for a
                  \* request of the page (<< >>: not requested)

kvars == <<pagePath, s3Key, servedKey>>

vars == <<wvars, bvars, pvars, avars, dvars, svars, rvars, gvars, kvars>>

\* the variables outside the workflow engine, the site builder, the push
\* bus, and the API routes
notW == <<bvars, pvars, avars, dvars, svars, rvars, gvars, kvars>>
notB == <<wvars, pvars, avars, dvars, svars, rvars, gvars, kvars>>
notP == <<wvars, bvars, avars, dvars, svars, rvars, gvars, kvars>>
notA == <<wvars, bvars, pvars, dvars, svars, rvars, gvars, kvars>>
notD == <<wvars, bvars, pvars, avars, svars, rvars, gvars, kvars>>
notR == <<wvars, bvars, pvars, avars, dvars, svars, gvars, kvars>>
notG == <<wvars, bvars, pvars, avars, dvars, svars, rvars, kvars>>
notK == <<wvars, bvars, pvars, avars, dvars, svars, rvars, gvars>>

def == Definition(wf)

NoError == [kind |-> "none", step |-> NoKey, attempt |-> 0]

RunEventTypes == {"run.started", "run.completed", "run.failed", "run.cancelled"}
StepEventTypes == {"step.started", "step.completed", "step.failed"}
BusRunEventTypes == {"run.completed", "run.failed"}

\* one more event of type t for step k
Counted(events, t, k) ==
  [events EXCEPT ![t][k] = IF @ < EventCap THEN @ + 1 ELSE @]

\* no run has been started
NotStarted ==
  /\ startPc = "init"
  /\ runStatus = "NONE"
  /\ runError = NoError
  /\ stepStatus = [k \in Keys |-> "NONE"]
  /\ retryCount = [k \in Keys |-> 0]
  /\ queue = EmptyBag
  /\ redelivered = 0
  /\ inflight = EmptyBag
  /\ execs = [k \in Keys |-> [r \in 0 .. maxRetries |-> 0]]
  /\ evCount = [t \in RunEventTypes |-> 0]
  /\ retryEvents = {}
  /\ cancelPc = "idle"
  /\ cancels = 0
  /\ cancelSeen = [started |-> FALSE, skipped |-> {}]
  /\ stepEvents = [t \in StepEventTypes |-> [k \in Keys |-> 0]]
  /\ busStep = [t \in StepEventTypes |-> [k \in Keys |-> 0]]
  /\ busRun = [t \in BusRunEventTypes |-> 0]
  /\ runOutput = NoKey
  /\ startedOn = NoKey

WInit == wf \in WorkflowIds /\ NotStarted

(* ------------------------------ helpers -------------------------------- *)
RECURSIVE Pow2(_)
Pow2(n) == IF n <= 0 THEN 1 ELSE 2 * Pow2(n - 1)

Job(k, delay) == [stepKey |-> k, delay |-> delay]

\* an invocation of processStep at position pc; while the executor runs,
\* type is the type of the node executeStep found for the step and context
\* the steps map of the context it built
Inv(pc, k, rc) ==
  [pc |-> pc, stepKey |-> k, rc |-> rc, type |-> NoKey, context |-> {}]

At(pc) == {r \in BagToSet(inflight) : r.pc = pc}

\* invocation r moves on to position pc, or returns
Goto(r, pc, rc) == (inflight (-) SetToBag({r})) (+) SetToBag({Inv(pc, r.stepKey, rc)})
Return(r) == inflight (-) SetToBag({r})

\* enqueueStep for every key of a set, each with the given delay
Enqueue(q, ks, delay) == q (+) SetToBag({Job(k, delay) : k \in ks})

\* buildContext: the keys of the steps map, one entry per step that is
\* COMPLETED with an output (every executor returns an object)
buildContext == {k \in Keys : stepStatus[k] = "COMPLETED"}

\* the invocation r inside the executor, with the context it was given
Executing(r) ==
  [Inv("exec", r.stepKey, 0) EXCEPT !.type = def.type[r.stepKey],
                                    !.context = buildContext]

\* a linear backoff in place of the exponential one
RetryDelayLinear(newRetryCount) == retryBaseDelayMs * newRetryCount

\* the delay handleStepError computes for the retry numbered newRetryCount
RetryDelay(newRetryCount) == retryBaseDelayMs * Pow2(newRetryCount - 1)

\* handleStepError's decision between retry and failure
ShouldRetry(newRetryCount) == newRetryCount <= maxRetries

\* a gate that drops only the jobs of COMPLETED steps
GateDropsCompleted(k) == stepStatus[k] = "COMPLETED"

\* processStep's idempotency gate and run check, and executeStep's own
\* check of the run: TRUE when the job is dropped
GateDrops(k) ==
  \/ stepStatus[k] = "NONE"
  \/ stepStatus[k] = "COMPLETED"
  \/ stepStatus[k] = "SKIPPED"
  \/ runStatus \in {"NONE", "CANCELLED", "FAILED"}

\* getReachableSteps: the next keys of the COMPLETED steps
getReachableSteps ==
  UNION {def.next[k] : k \in {s \in def.nodes : stepStatus[s] = "COMPLETED"}}

\* a step that never has a successor
NextStepsNone(k, selectedBranch) == {}

\* handleStepComplete: the successors of a completed step
NextSteps(k, selectedBranch) ==
  IF def.type[k] = "CONDITION"
    THEN (IF selectedBranch # NoKey THEN {selectedBranch} ELSE {})
    ELSE def.next[k]

\* a failed evaluation that lets the value through
ConditionResultUnguarded(expression, value) == value

\* executeCondition: the result of evaluating the expression; value is what
\* a valid expression evaluates to.  new Function and the call are inside one
\* try whose catch sets the result to false.
ConditionResult(expression, value) ==
  IF expression = "valid" THEN value ELSE FALSE

\* the executor of a node of this type throws whatever the attempt: a
\* CONDITION without an expression
ExecutorRejects(type) == type = "CONDITION" /\ Expression(wf) = "missing"

\* executeCondition: the branch the result selects
SelectedBranch(k, result) ==
  IF def.type[k] = "CONDITION"
    THEN (IF result THEN def.trueBranch ELSE def.falseBranch)
    ELSE NoKey

\* the status failRun gives a step
SkipPending(status) == IF status = "PENDING" THEN "SKIPPED" ELSE status

\* the status the cancel transaction gives a step
SkipActive(status) == IF status \in {"PENDING", "RUNNING"} THEN "SKIPPED" ELSE status

(* ------------------------------ startRun ------------------------------- *)
\* the transaction of startRun: the run, one PENDING step per node, run.started
StartRunCreate ==
  /\ startPc = "init"
  /\ startPc' = "created"
  /\ runStatus' = "PENDING"
  /\ stepStatus' = [k \in Keys |-> IF k \in def.nodes THEN "PENDING" ELSE "NONE"]
  /\ evCount' = [evCount EXCEPT !["run.started"] = @ + 1]
  /\ startedOn' = wf
  /\ UNCHANGED <<wf, runError, retryCount, queue, redelivered, inflight,
                 execs, retryEvents, cancelPc, cancels,
                 cancelSeen,
                 stepEvents, busStep, busRun, runOutput, notW>>

\* startRun after the transaction: status RUNNING, then enqueue the entrypoint
StartRunEnqueue ==
  /\ startPc = "created"
  /\ startPc' = "done"
  /\ runStatus' = "RUNNING"
  /\ queue' = Enqueue(queue, {def.entrypoint}, 0)
  /\ UNCHANGED <<wf, runError, stepStatus, retryCount, redelivered, inflight,
                 execs, evCount, retryEvents, cancelPc, cancels,
                 cancelSeen,
                 stepEvents, busStep, busRun, runOutput, startedOn, notW>>

(* ------------------------- worker: processStep ------------------------- *)
\* processStep up to executeStep's first write: the job for k is dropped, or
\* it passes the gate and step.started is broadcast
Gate(k) ==
  IF GateDrops(k)
    THEN UNCHANGED <<inflight, busStep>>
    ELSE /\ busStep' = Counted(busStep, "step.started", k)
         /\ inflight' = inflight (+) SetToBag({Inv("start", k, 0)})

\* a free worker slot takes a job from the queue
Deliver ==
  /\ BagCardinality(inflight) < NumWorkers
  /\ \E j \in BagToSet(queue) :
       /\ queue' = queue (-) SetToBag({j})
       /\ Gate(j.stepKey)
  /\ UNCHANGED <<wf, startPc, runStatus, runError, stepStatus, retryCount,
                 redelivered, execs, evCount, retryEvents, cancelPc, cancels,
                 cancelSeen,
                 stepEvents, busRun, runOutput, startedOn, notW>>

\* at-least-once delivery: a job whose worker is still inside the executor
\* stalls (its lock expires) and the queue hands it to a free worker slot too
Redeliver ==
  /\ BagCardinality(inflight) < NumWorkers
  /\ redelivered < MaxRedeliver
  /\ redelivered' = redelivered + 1
  /\ \E r \in At("exec") : Gate(r.stepKey)
  /\ UNCHANGED <<wf, startPc, runStatus, runError, stepStatus, retryCount,
                 queue, execs, evCount, retryEvents, cancelPc, cancels,
                 cancelSeen,
                 stepEvents, busRun, runOutput, startedOn, notW>>

\* executeStep: build the context, mark the step RUNNING and call the executor
StartStep ==
  \E r \in At("start") :
    /\ r.stepKey \in def.nodes
    /\ inflight' = (inflight (-) SetToBag({r})) (+) SetToBag({Executing(r)})
    /\ stepStatus' = [stepStatus EXCEPT ![r.stepKey] = "RUNNING"]
    /\ stepEvents' = Counted(stepEvents, "step.started", r.stepKey)
    /\ execs' = [execs EXCEPT ![r.stepKey][retryCount[r.stepKey]] =
                                 IF @ < ExecCap THEN @ + 1 ELSE @]
    /\ UNCHANGED <<wf, startPc, runStatus, runError, retryCount, queue,
                   redelivered, evCount, retryEvents, cancelPc, cancels,
                 cancelSeen,
                 busStep, busRun, runOutput, startedOn, notW>>

\* the executor returns; handleStepComplete stores COMPLETED and either
\* enqueues the successors or goes on to the completion check
ExecSuccess ==
  \E r \in At("exec"), value \in BOOLEAN :
    LET k == r.stepKey
        result == ConditionResult(Expression(wf), value)
        nextSteps == NextSteps(k, SelectedBranch(k, result))
    IN /\ r.type = "CONDITION" \/ value
       /\ ~ExecutorRejects(r.type)
       /\ k \notin def.down
       /\ stepStatus' = [stepStatus EXCEPT ![k] = "COMPLETED"]
       /\ stepEvents' = Counted(stepEvents, "step.completed", k)
       /\ IF nextSteps = {}
            THEN /\ inflight' = Goto(r, "check", 0)
                 /\ UNCHANGED queue
            ELSE /\ queue' = Enqueue(queue, nextSteps \cap def.nodes, 0)
                 /\ inflight' = Goto(r, "emit", 0)
       /\ UNCHANGED <<wf, startPc, runStatus, runError, retryCount, redelivered,
                      execs, evCount, retryEvents, cancelPc, cancels,
                 cancelSeen,
                 busStep, busRun, runOutput, startedOn, notW>>

\* handleStepComplete with no successor: read the steps, decide completion.
\* pendingSteps[0] is whichever PENDING step the unordered query returns first.
CompletionDecided(first) ==
  LET allDone == \A s \in def.nodes : stepStatus[s] \in TerminalStep
  IN allDone \/ (first # NoKey /\ first \notin getReachableSteps)

CheckComplete ==
  \E r \in At("check") :
    LET pendingSteps == {s \in def.nodes : stepStatus[s] = "PENDING"}
    IN \E first \in (IF pendingSteps = {} THEN {NoKey} ELSE pendingSteps) :
         /\ inflight' = IF CompletionDecided(first)
                          THEN Goto(r, "completeRun", 0) ELSE Goto(r, "emit", 0)
         /\ UNCHANGED <<wf, startPc, runStatus, runError, stepStatus, retryCount,
                        queue, redelivered, execs, evCount, retryEvents,
                        cancelPc, cancels,
                 cancelSeen,
                 stepEvents, busStep, busRun, runOutput, startedOn, notW>>

\* completeRun
CompleteRun ==
  \E r \in At("completeRun") :
    /\ runStatus' = "COMPLETED"
    /\ evCount' = [evCount EXCEPT !["run.completed"] = @ + 1]
    /\ runOutput' = r.stepKey
    /\ inflight' = Goto(r, "emit", 0)
    /\ UNCHANGED <<wf, startPc, runError, stepStatus, retryCount, queue,
                   redelivered, execs, retryEvents, cancelPc, cancels,
                 cancelSeen,
                 stepEvents, busStep, busRun, startedOn, notW>>

\* the executor throws; handleStepError reads the step
ExecError ==
  \E r \in At("exec") :
    /\ CanThrow(r.type) \/ ExecutorRejects(r.type)
    /\ inflight' = Goto(r, "handleError", retryCount[r.stepKey])
    /\ UNCHANGED <<wf, startPc, runStatus, runError, stepStatus, retryCount,
                   queue, redelivered, execs, evCount, retryEvents, cancelPc,
                   cancels,
                 cancelSeen,
                 stepEvents, busStep, busRun, runOutput, startedOn, notW>>

\* handleStepError: retry with backoff, or fail the step
HandleStepError ==
  \E r \in At("handleError") :
    LET k == r.stepKey
        newRetryCount == r.rc + 1
    IN /\ IF ShouldRetry(newRetryCount)
            THEN /\ retryCount' = [retryCount EXCEPT ![k] = newRetryCount]
                 /\ stepStatus' = [stepStatus EXCEPT ![k] = "PENDING"]
                 /\ retryEvents' = retryEvents \cup
                                     {<<k, newRetryCount, RetryDelay(newRetryCount)>>}
                 /\ queue' = Enqueue(queue, {k}, RetryDelay(newRetryCount))
                 /\ inflight' = Goto(r, "emit", 0)
                 /\ UNCHANGED stepEvents
            ELSE /\ stepStatus' = [stepStatus EXCEPT ![k] = "FAILED"]
                 /\ stepEvents' = Counted(stepEvents, "step.failed", k)
                 /\ inflight' = Goto(r, "failRun", r.rc)
                 /\ UNCHANGED <<retryCount, retryEvents, queue>>
       /\ UNCHANGED <<wf, startPc, runStatus, runError, redelivered, execs,
                      evCount, cancelPc, cancels,
                 cancelSeen,
                 busStep, busRun, runOutput, startedOn, notW>>

\* failRun: skip the PENDING steps, mark the run FAILED with the error
FailRun ==
  \E r \in At("failRun") :
    /\ stepStatus' = [k \in Keys |-> SkipPending(stepStatus[k])]
    /\ runStatus' = "FAILED"
    /\ runError' = [kind |-> "failed", step |-> r.stepKey, attempt |-> r.rc]
    /\ evCount' = [evCount EXCEPT !["run.failed"] = @ + 1]
    /\ inflight' = Goto(r, "emit", 0)
    /\ UNCHANGED <<wf, startPc, retryCount, queue, redelivered, execs,
                   retryEvents, cancelPc, cancels,
                 cancelSeen,
                 stepEvents, busStep, busRun, runOutput, startedOn, notW>>

\* processStep after executeStep has returned: read the step and the run,
\* broadcast step.completed when the step is COMPLETED and then run.completed
\* when the run is COMPLETED.  executeStep handles the executor's error
\* itself and returns, so the catch of processStep is not entered.
Emit ==
  \E r \in At("emit") :
    /\ IF stepStatus[r.stepKey] = "COMPLETED"
         THEN /\ busStep' = Counted(busStep, "step.completed", r.stepKey)
              /\ busRun' = IF runStatus = "COMPLETED"
                             THEN [busRun EXCEPT !["run.completed"] =
                                     IF @ < EventCap THEN @ + 1 ELSE @]
                             ELSE busRun
         ELSE UNCHANGED <<busStep, busRun>>
    /\ inflight' = Return(r)
    /\ UNCHANGED <<wf, startPc, runStatus, runError, stepStatus, retryCount,
                   queue, redelivered, execs, evCount, retryEvents, cancelPc,
                   cancels, cancelSeen, stepEvents, runOutput, startedOn, notW>>

(* ----------------------------- cancel route ---------------------------- *)
\* POST /:id/cancel reads the run and accepts it when PENDING or RUNNING
CancelCheck ==
  /\ cancelPc = "idle"
  /\ cancels < MaxCancels
  /\ runStatus \in {"PENDING", "RUNNING"}
  /\ cancelPc' = "txn"
  /\ cancels' = cancels + 1
  /\ UNCHANGED <<wf, startPc, runStatus, runError, stepStatus, retryCount,
                 queue, redelivered, inflight, execs, evCount, retryEvents,
                 cancelSeen,
                 stepEvents, busStep, busRun, runOutput, startedOn, notW>>

\* the cancel transaction
CancelTxn ==
  /\ cancelPc = "txn"
  /\ cancelPc' = "idle"
  /\ runStatus' = "CANCELLED"
  /\ runError' = [kind |-> "cancelled", step |-> NoKey, attempt |-> 0]
  /\ stepStatus' = [k \in Keys |-> SkipActive(stepStatus[k])]
  /\ evCount' = [evCount EXCEPT !["run.cancelled"] = @ + 1]
  /\ cancelSeen' = [started |-> startPc = "done",
                     skipped |-> cancelSeen.skipped \cup
                                   {k \in Keys : stepStatus[k] \in {"PENDING", "RUNNING"}}]
  /\ UNCHANGED <<wf, startPc, retryCount, queue, redelivered, inflight, execs,
                 retryEvents, cancels,
                 stepEvents, busStep, busRun, runOutput, startedOn, notW>>

(* -------------------------- definition update -------------------------- *)
\* executeStep finds no node for the step in the definition and throws;
\* processStep catches, broadcasts step.failed, and run.failed when the run
\* is FAILED, and returns
NodeMissing ==
  \E r \in At("start") :
    /\ r.stepKey \notin def.nodes
    /\ busStep' = Counted(busStep, "step.failed", r.stepKey)
    /\ busRun' = IF runStatus = "FAILED"
                   THEN [busRun EXCEPT !["run.failed"] =
                           IF @ < EventCap THEN @ + 1 ELSE @]
                   ELSE busRun
    /\ inflight' = Return(r)
    /\ UNCHANGED <<wf, startPc, runStatus, runError, stepStatus, retryCount,
                   queue, redelivered, execs, evCount, retryEvents, cancelPc,
                   cancels, cancelSeen, stepEvents, runOutput, startedOn, notW>>

\* the definitions an update request puts in place of the current one; each
\* passes validateDefinitionGraph
UpdateIds == {"parallel", "retry"}

\* PUT /:id with a definition, the first one after the run was started: the
\* Workflow row is updated in place
updateDefinition ==
  /\ startedOn = wf
  /\ \E id \in UpdateIds \ {wf} : wf' = id
  /\ UNCHANGED <<startPc, runStatus, runError, stepStatus, retryCount, queue,
                 redelivered, inflight, execs, evCount, retryEvents, cancelPc,
                 cancels, cancelSeen, stepEvents, busStep, busRun, runOutput,
                 startedOn, notW>>

(* ============================ site builder ============================= *)
Versions == 1 .. MaxVersions

\* the artifacts of a version: its pages, 404.html, manifest.json
NumArtifacts == NumPages + 2

NoCache == [activeVersionId |-> 0, age |-> 0]
NoServe == [version |-> 0, active |-> 0, path |-> "-", body |-> "-", status |-> 0]

\* the page paths a serve request asks for: the published page, and a path
\* no page has
ServePaths == {"/", "/missing"}

BInit ==
  /\ activeVersionId = 0
  /\ versionStatus = [v \in Versions |-> "NONE"]
  /\ jobStatus = [v \in Versions |-> "NONE"]
  /\ jobRetryCount = [v \in Versions |-> 0]
  /\ buildQueue = {}
  /\ attemptsMade = [v \in Versions |-> 0]
  /\ builds = EmptyBag
  /\ buildRedelivered = 0
  /\ rollbackPc = "idle"
  /\ rollbackTarget = 0
  /\ rollbackSeen = "NONE"
  /\ rollbacks = 0
  /\ s3 = [v \in Versions |-> 0]
  /\ siteCache = NoCache
  /\ lastServe = NoServe

\* an invocation of processBuildJob at position pc
Build(pc, v, siteActive, done) ==
  [pc |-> pc, job |-> v, siteActive |-> siteActive, done |-> done]

BuildsAt(pc) == {r \in BagToSet(builds) : r.pc = pc}

BuildGoto(r, pc, siteActive, done) ==
  (builds (-) SetToBag({r})) (+) SetToBag({Build(pc, r.job, siteActive, done)})

BuildReturn(r) == builds (-) SetToBag({r})

\* the version number the next Publish assigns: latest version + 1
nextVersion ==
  LET existing == {v \in Versions : versionStatus[v] # "NONE"}
  IN IF existing = {} THEN 1
     ELSE (CHOOSE v \in existing : \A u \in existing : u <= v) + 1

\* triggerBuild: a BUILDING version with a QUEUED build job, enqueued
triggerBuild ==
  /\ nextVersion \in Versions
  /\ versionStatus' = [versionStatus EXCEPT ![nextVersion] = "BUILDING"]
  /\ jobStatus' = [jobStatus EXCEPT ![nextVersion] = "QUEUED"]
  /\ buildQueue' = buildQueue \cup {nextVersion}
  /\ UNCHANGED <<activeVersionId, jobRetryCount, attemptsMade, builds,
                 buildRedelivered, rollbackPc, rollbackTarget, rollbackSeen,
                 rollbacks, s3, siteCache, lastServe, notB>>

\* a processBuildJob that executes whatever the status of the job
processBuildJobUnchecked(v) ==
  /\ builds' = builds (+) SetToBag({Build("executeBuild", v, 0, 0)})
  /\ UNCHANGED <<jobStatus, versionStatus>>

\* processBuildJob up to the call of executeBuild: a COMPLETED job is
\* skipped, a job out of retries is marked FAILED with its version, any
\* other job is executed
processBuildJob(v) ==
  IF jobStatus[v] = "COMPLETED"
    THEN UNCHANGED <<builds, jobStatus, versionStatus>>
    ELSE IF jobRetryCount[v] >= MAX_RETRIES
      THEN /\ jobStatus' = [jobStatus EXCEPT ![v] = "FAILED"]
           /\ versionStatus' = [versionStatus EXCEPT ![v] = "FAILED"]
           /\ UNCHANGED builds
      ELSE /\ builds' = builds (+) SetToBag({Build("executeBuild", v, 0, 0)})
           /\ UNCHANGED <<jobStatus, versionStatus>>

\* a free slot of the build worker takes a job from the queue
BuildDeliver ==
  /\ BagCardinality(builds) < concurrency
  /\ \E v \in buildQueue :
       /\ buildQueue' = buildQueue \ {v}
       /\ processBuildJob(v)
  /\ UNCHANGED <<activeVersionId, jobRetryCount, attemptsMade,
                 buildRedelivered, rollbackPc, rollbackTarget, rollbackSeen,
                 rollbacks, s3, siteCache, lastServe, notB>>

\* at-least-once delivery: a build job whose worker is still uploading
\* stalls and the queue hands it to a free slot too
BuildRedeliver ==
  /\ BagCardinality(builds) < concurrency
  /\ buildRedelivered < MaxBuildRedeliver
  /\ buildRedelivered' = buildRedelivered + 1
  /\ \E r \in BuildsAt("upload") : processBuildJob(r.job)
  /\ UNCHANGED <<activeVersionId, jobRetryCount, buildQueue, attemptsMade,
                 rollbackPc, rollbackTarget, rollbackSeen, rollbacks,
                 s3, siteCache, lastServe, notB>>

\* executeBuild: read the job with its version and site, mark it PROCESSING
executeBuildBegin ==
  \E r \in BuildsAt("executeBuild") :
    /\ builds' = BuildGoto(r, "upload", activeVersionId, 0)
    /\ jobStatus' = [jobStatus EXCEPT ![r.job] = "PROCESSING"]
    /\ UNCHANGED <<activeVersionId, versionStatus, jobRetryCount, buildQueue,
                   attemptsMade, buildRedelivered, rollbackPc, rollbackTarget,
                   rollbackSeen, rollbacks, s3, siteCache, lastServe, notB>>

\* the statuses after the activation transaction of version v, run by an
\* executeBuild that read site.activeVersionId = siteActive
Activated(v, siteActive) ==
  [u \in Versions |->
     IF u = v THEN "READY"
     ELSE IF siteActive # 0 /\ versionStatus[u] = "READY" THEN "SUPERSEDED"
     ELSE versionStatus[u]]

\* executeBuild: render and upload the next artifact
uploadFile ==
  \E r \in BuildsAt("upload") :
    /\ r.done < NumArtifacts
    /\ builds' = BuildGoto(r, "upload", r.siteActive, r.done + 1)
    /\ s3' = [s3 EXCEPT ![r.job] = IF @ < r.done + 1 THEN r.done + 1 ELSE @]
    /\ UNCHANGED <<activeVersionId, versionStatus, jobStatus, jobRetryCount,
                   buildQueue, attemptsMade, buildRedelivered, rollbackPc,
                   rollbackTarget, rollbackSeen, rollbacks, siteCache,
                   lastServe, notB>>

\* this execution uploads nothing
UploadsSkipped(r) == TRUE

\* executeBuild reaches the activation transaction after its last upload
UploadsDone(r) == r.done = NumArtifacts

\* executeBuild, all uploads done: the activation transaction
executeBuildActivate ==
  \E r \in BuildsAt("upload") :
    /\ UploadsDone(r)
    /\ versionStatus' = Activated(r.job, r.siteActive)
    /\ activeVersionId' = r.job
    /\ jobStatus' = [jobStatus EXCEPT ![r.job] = "COMPLETED"]
    /\ builds' = BuildReturn(r)
    /\ UNCHANGED <<jobRetryCount, buildQueue, attemptsMade, buildRedelivered,
                   rollbackPc, rollbackTarget, rollbackSeen, rollbacks,
                   s3, siteCache, lastServe, notB>>

\* a failure that marks every version of the site FAILED
FailedAll(v) == [u \in Versions |-> IF versionStatus[u] = "NONE" THEN "NONE" ELSE "FAILED"]

\* the statuses after the failure transaction of version v
Failed(v) == [versionStatus EXCEPT ![v] = "FAILED"]

\* executeBuild, a render, an upload or the activation transaction throws:
\* the failure transaction
executeBuildFail ==
  \E r \in BuildsAt("upload") :
    /\ versionStatus' = Failed(r.job)
    /\ jobStatus' = [jobStatus EXCEPT ![r.job] = "FAILED"]
    /\ builds' = BuildGoto(r, "catch", r.siteActive, r.done)
    /\ UNCHANGED <<activeVersionId, jobRetryCount, buildQueue, attemptsMade,
                   buildRedelivered, rollbackPc, rollbackTarget, rollbackSeen,
                   rollbacks, s3, siteCache, lastServe, notB>>

\* processBuildJob's catch: count the retry and rethrow; the queue retries
\* the job while it has attempts left
processBuildJobCatch ==
  \E r \in BuildsAt("catch") :
    /\ jobRetryCount' = [jobRetryCount EXCEPT ![r.job] =
                           IF @ < MAX_RETRIES + MaxBuildRedeliver THEN @ + 1 ELSE @]
    /\ attemptsMade' = [attemptsMade EXCEPT ![r.job] =
                           IF @ < attempts THEN @ + 1 ELSE @]
    /\ buildQueue' = IF attemptsMade[r.job] + 1 < attempts
                       THEN buildQueue \cup {r.job} ELSE buildQueue
    /\ builds' = BuildReturn(r)
    /\ UNCHANGED <<activeVersionId, versionStatus, jobStatus, buildRedelivered,
                   rollbackPc, rollbackTarget, rollbackSeen, rollbacks,
                   s3, siteCache, lastServe, notB>>

\* a validation that lets every existing version through
RollbackAcceptsAny(status) == status # "NONE"

\* rollback's validation of the target it read: a version of the site
\* ("NONE": findFirst returns null) whose status is READY or SUPERSEDED
RollbackAccepts(status) == status \in {"READY", "SUPERSEDED"}

\* rollback: read the target version; go on to the transaction when the
\* target is accepted, throw NotFoundError or ValidationError otherwise
rollbackRead ==
  /\ rollbackPc = "idle"
  /\ rollbacks < MaxRollbacks
  /\ rollbacks' = rollbacks + 1
  /\ \E target \in Versions :
       IF RollbackAccepts(versionStatus[target])
         THEN /\ rollbackPc' = "txn"
              /\ rollbackTarget' = target
              /\ rollbackSeen' = versionStatus[target]
         ELSE UNCHANGED <<rollbackPc, rollbackTarget, rollbackSeen>>
  /\ UNCHANGED <<activeVersionId, versionStatus, jobStatus, jobRetryCount,
                 buildQueue, attemptsMade, builds, buildRedelivered,
                 s3, siteCache, lastServe, notB>>

\* the statuses after the rollback transaction
RolledBack(target, seen) ==
  [u \in Versions |->
     IF u = target THEN (IF seen = "SUPERSEDED" THEN "READY" ELSE versionStatus[u])
     ELSE IF u = activeVersionId THEN "SUPERSEDED"
     ELSE versionStatus[u]]

\* rollback: the transaction
rollbackTxn ==
  /\ rollbackPc = "txn"
  /\ versionStatus' = RolledBack(rollbackTarget, rollbackSeen)
  /\ activeVersionId' = rollbackTarget
  /\ rollbackPc' = "idle"
  /\ rollbackTarget' = 0
  /\ rollbackSeen' = "NONE"
  /\ UNCHANGED <<jobStatus, jobRetryCount, buildQueue, attemptsMade, builds,
                 buildRedelivered, rollbacks, s3, siteCache, lastServe, notB>>

\* getCachedSite: the entry, unless there is none or it has expired
getCachedSite ==
  IF siteCache.activeVersionId = 0 \/ siteCache.age > CACHE_TTL_MS
    THEN NoCache ELSE siteCache

\* resolveSite's fetch from S3 under the prefix of version v: the page's
\* artifact, else 404.html, else nothing (v = 0: no active version)
Fetched(v, path) ==
  IF v # 0 /\ path = "/" /\ s3[v] >= NumPages THEN "page"
  ELSE IF v # 0 /\ s3[v] >= NumPages + 1 THEN "404.html"
  ELSE "none"

\* handleServe's answer: NotFoundError when resolveSite found nothing, else
\* the body it found, sent with res.send
Answer(v, path) ==
  IF Fetched(v, path) = "none"
    THEN [body |-> "error", status |-> 404]
    ELSE [body |-> Fetched(v, path), status |-> 200]

Served(v, path) ==
  [version |-> v, active |-> activeVersionId, path |-> path,
   body |-> Answer(v, path).body, status |-> Answer(v, path).status]

\* handleServe and resolveSite for a request of the subdomain: from the
\* cache entry, else from the site's active version, which is then cached
resolveSite ==
  /\ \E path \in ServePaths :
       IF getCachedSite # NoCache
         THEN /\ lastServe' = Served(siteCache.activeVersionId, path)
              /\ UNCHANGED siteCache
         ELSE /\ lastServe' = Served(activeVersionId, path)
              /\ siteCache' = [activeVersionId |-> activeVersionId, age |-> 0]
  /\ UNCHANGED <<activeVersionId, versionStatus, jobStatus, jobRetryCount,
                 buildQueue, attemptsMade, builds, buildRedelivered, rollbackPc,
                 rollbackTarget, rollbackSeen, rollbacks, s3, notB>>

\* time passes for the resolver's cache entry
Tick ==
  /\ siteCache.activeVersionId # 0
  /\ siteCache.age <= CACHE_TTL_MS
  /\ siteCache' = [siteCache EXCEPT !.age = @ + TickMs]
  /\ UNCHANGED <<activeVersionId, versionStatus, jobStatus, jobRetryCount,
                 buildQueue, attemptsMade, builds, buildRedelivered, rollbackPc,
                 rollbackTarget, rollbackSeen, rollbacks, s3, lastServe, notB>>

(* ============================== push bus ============================== *)
ClientIds == {"c1", "c2"}
RunIds == {"r1", "r2"}

\* the tenant in the token a client connects with, and the tenant owning a run
ClientTenant(c) == IF c = "c1" THEN "A" ELSE "B"
RunTenant(r) == IF r = "r1" THEN "A" ELSE "B"

\* pingPending: a ping was sent on the socket and no pong has come back since
NoClient == [connected |-> FALSE, subscribedRuns |-> {}, isAlive |-> FALSE,
             pingPending |-> FALSE]
NoRun == "-"

PInit ==
  /\ clients = [c \in ClientIds |-> NoClient]
  /\ lastBroadcast = [runId |-> NoRun, recipients |-> {}]

\* handleConnection with a valid token
handleConnection ==
  \E c \in ClientIds :
    /\ ~clients[c].connected
    /\ clients' = [clients EXCEPT ![c] =
                     [connected |-> TRUE, subscribedRuns |-> {}, isAlive |-> TRUE,
                      pingPending |-> FALSE]]
    /\ UNCHANGED <<lastBroadcast, notP>>

\* the socket closes or errors: the client is deleted
handleClose ==
  \E c \in ClientIds :
    /\ clients[c].connected
    /\ clients' = [clients EXCEPT ![c] = NoClient]
    /\ UNCHANGED <<lastBroadcast, notP>>

\* handleMessage, type subscribe
subscribe ==
  \E c \in ClientIds, r \in RunIds :
    /\ clients[c].connected
    /\ clients' = [clients EXCEPT ![c].subscribedRuns = @ \cup {r}]
    /\ UNCHANGED <<lastBroadcast, notP>>

\* handleMessage, type unsubscribe
unsubscribe ==
  \E c \in ClientIds, r \in RunIds :
    /\ clients[c].connected
    /\ clients' = [clients EXCEPT ![c].subscribedRuns = @ \ {r}]
    /\ UNCHANGED <<lastBroadcast, notP>>

\* the clients broadcast sends an event of run r to
Recipients(r) ==
  {c \in ClientIds : clients[c].connected /\ r \in clients[c].subscribedRuns}

\* broadcast of an event of run r
broadcast ==
  \E r \in RunIds :
    /\ lastBroadcast' = [runId |-> r, recipients |-> Recipients(r)]
    /\ UNCHANGED <<clients, notP>>

\* a heartbeat that finds no connection stale
StaleNever(client) == FALSE

\* the heartbeat's test of a connection
Stale(client) == ~client.isAlive

\* the heartbeat interval fires: clients that did not answer the last ping
\* are terminated, the others are pinged
heartbeat ==
  /\ clients' = [c \in ClientIds |->
                   IF ~clients[c].connected \/ Stale(clients[c]) THEN NoClient
                   ELSE [clients[c] EXCEPT !.isAlive = FALSE, !.pingPending = TRUE]]
  /\ UNCHANGED <<lastBroadcast, notP>>

\* a client answers the ping
pong ==
  \E c \in ClientIds :
    /\ clients[c].connected
    /\ clients' = [clients EXCEPT ![c].isAlive = TRUE, ![c].pingPending = FALSE]
    /\ UNCHANGED <<lastBroadcast, notP>>

(* ======================= API routes and tenants ======================== *)
\* the rows in the store: two tenants, each owning one workflow with one
\* run, and one site with one version and one page
Tenants == {"A", "B"}
WorkflowRows == {"w1", "w2"}
SiteRows == {"s1", "s2"}
VersionRows == {"v1", "v2"}
PageRows == {"p1", "p2"}

WorkflowTenant(w) == IF w = "w1" THEN "A" ELSE "B"
RunWorkflow(r) == IF r = "r1" THEN "w1" ELSE "w2"
SiteTenant(x) == IF x = "s1" THEN "A" ELSE "B"
VersionSite(v) == IF v = "v1" THEN "s1" ELSE "s2"
PageSite(q) == IF q = "p1" THEN "s1" ELSE "s2"

\* the tenant a row belongs to
Owner(row) ==
  CASE row \in WorkflowRows -> WorkflowTenant(row)
    [] row \in RunIds -> RunTenant(row)
    [] row \in SiteRows -> SiteTenant(row)
    [] row \in VersionRows -> SiteTenant(VersionSite(row))
    [] row \in PageRows -> SiteTenant(PageSite(row))

\* a run lookup by id alone
FindRunById(id, t) == id \in RunIds

\* the lookups of the routes: prisma findFirst with these where clauses
FindWorkflow(id, t) == WorkflowTenant(id) = t
FindRun(id, t) == RunTenant(id) = t
FindSite(id, t) == SiteTenant(id) = t
FindVersion(id, siteId) == VersionSite(id) = siteId
FindPage(id, siteId) == PageSite(id) = siteId

NoResponse == [tenant |-> "-", status |-> "none", addressed |-> {}, rows |-> {}]
NotFound(t, ids) == [tenant |-> t, status |-> "NOT_FOUND", addressed |-> ids, rows |-> {}]
Ok(t, ids, rows) == [tenant |-> t, status |-> "OK", addressed |-> ids, rows |-> rows]

AInit ==
  /\ response = NoResponse
  /\ writes = {}

\* /workflows/:id  GET, PUT, DELETE, POST execute, GET runs
workflowRoute ==
  \E t \in Tenants, id \in WorkflowRows, op \in {"get", "put", "delete", "execute", "runs"} :
    /\ IF ~FindWorkflow(id, t)
         THEN response' = NotFound(t, {id}) /\ UNCHANGED writes
         ELSE /\ response' = Ok(t, {id},
                     IF op = "runs"
                       THEN {r \in RunIds : RunWorkflow(r) = id /\ RunTenant(r) = t}
                       ELSE {id})
              /\ writes' = IF op \in {"put", "delete"}
                             THEN writes \cup {<<t, id>>} ELSE writes
    /\ UNCHANGED notA

\* /runs/:id  GET, GET events, POST cancel
runRoute ==
  \E t \in Tenants, id \in RunIds, op \in {"get", "events", "cancel"} :
    /\ IF ~FindRun(id, t)
         THEN response' = NotFound(t, {id}) /\ UNCHANGED writes
         ELSE /\ response' = Ok(t, {id}, {id})
              /\ writes' = IF op = "cancel" THEN writes \cup {<<t, id>>} ELSE writes
    /\ UNCHANGED notA

\* /sites/:id  GET, PUT, DELETE, POST publish, GET versions, GET pages,
\* POST pages
siteRoute ==
  \E t \in Tenants, id \in SiteRows,
     op \in {"get", "put", "delete", "publish", "versions", "pages", "addPage"} :
    /\ IF ~FindSite(id, t)
         THEN response' = NotFound(t, {id}) /\ UNCHANGED writes
         ELSE /\ response' = Ok(t, {id},
                     CASE op = "versions" -> {v \in VersionRows : VersionSite(v) = id}
                       [] op = "pages" -> {q \in PageRows : PageSite(q) = id}
                       [] OTHER -> {id})
              /\ writes' = IF op \in {"put", "delete", "publish", "addPage"}
                             THEN writes \cup {<<t, id>>} ELSE writes
    /\ UNCHANGED notA

\* POST /sites/:id/rollback {versionId}
rollbackRoute ==
  \E t \in Tenants, id \in SiteRows, versionId \in VersionRows :
    /\ IF ~FindSite(id, t) \/ ~FindVersion(versionId, id)
         THEN response' = NotFound(t, {id, versionId}) /\ UNCHANGED writes
         ELSE /\ response' = Ok(t, {id, versionId}, {id, versionId})
              /\ writes' = writes \cup {<<t, id>>, <<t, versionId>>}
    /\ UNCHANGED notA

\* PUT and DELETE /sites/:id/pages/:pageId
pageRoute ==
  \E t \in Tenants, id \in SiteRows, pageId \in PageRows :
    /\ IF ~FindSite(id, t) \/ ~FindPage(pageId, id)
         THEN response' = NotFound(t, {id, pageId}) /\ UNCHANGED writes
         ELSE /\ response' = Ok(t, {id, pageId}, {pageId})
              /\ writes' = writes \cup {<<t, pageId>>}
    /\ UNCHANGED notA

(* ================== workflow definition validation ===================== *)
\* request bodies that pass the zod schema: nodes keyed by a subset of
\* NodeKeys, names drawn from NodeNames ("x" is never a key)
NodeKeys == {"a", "b"}
NodeNames == NodeKeys \cup {"x"}
MaxNext == 1
MaxEdges == 1

NextSets == {S \in SUBSET NodeNames : Cardinality(S) <= MaxNext}
EdgeSets == {S \in SUBSET (NodeNames \X NodeNames) : Cardinality(S) <= MaxEdges}

\* a node: for a CONDITION node config.trueBranch and config.falseBranch are
\* free; another node may carry a stray config.trueBranch
WorkflowNodes ==
  [id : NodeKeys, type : {"CONDITION"}, next : NextSets,
   trueBranch : NodeNames \cup {NoKey}, falseBranch : NodeNames \cup {NoKey}]
  \cup
  [id : NodeKeys, type : {"TRANSFORM"}, next : NextSets,
   trueBranch : {NoKey, "x"}, falseBranch : {NoKey}]

Bodies ==
  [entrypoint : NodeNames,
   nodes : UNION {[K -> WorkflowNodes] : K \in SUBSET NodeKeys},
   edges : EdgeSets]

NoWorkflow == [definition |-> NoKey, version |-> 0]

\* a workflow created earlier: a -> b
StoredWorkflow ==
  [definition |->
     [entrypoint |-> "a",
      nodes |-> [k \in NodeKeys |->
                  [id |-> k, type |-> "TRANSFORM",
                   next |-> IF k = "a" THEN {"b"} ELSE {},
                   trueBranch |-> NoKey, falseBranch |-> NoKey]],
      edges |-> {<<"a", "b">>}],
   version |-> 1]

DInit ==
  /\ body \in Bodies
  /\ workflowRow \in {NoWorkflow, StoredWorkflow}
  /\ outcome = "none"

\* a branch check that accepts every name
BranchUnchecked(nodeIds, branch) == TRUE

\* cfg.trueBranch && !nodeIds.has(cfg.trueBranch) does not hold
BranchKnown(nodeIds, branch) == branch = NoKey \/ branch \in nodeIds

\* TRUE when validateDefinitionGraph returns, FALSE when it throws
\* ValidationError
validateDefinitionGraph(definition) ==
  LET nodeIds == DOMAIN definition.nodes IN
    /\ definition.entrypoint \in nodeIds
    /\ \A edge \in definition.edges : edge[1] \in nodeIds /\ edge[2] \in nodeIds
    /\ \A nodeId \in nodeIds :
         LET node == definition.nodes[nodeId] IN
           /\ node.id = nodeId
           /\ \A nextId \in node.next : nextId \in nodeIds
           /\ node.type = "CONDITION" =>
                /\ BranchKnown(nodeIds, node.trueBranch)
                /\ BranchKnown(nodeIds, node.falseBranch)

\* POST /workflows
createWorkflow ==
  /\ outcome = "none"
  /\ workflowRow = NoWorkflow
  /\ IF validateDefinitionGraph(body)
       THEN /\ workflowRow' = [definition |-> body, version |-> 1]
            /\ outcome' = "created"
       ELSE /\ outcome' = "VALIDATION_ERROR"
            /\ UNCHANGED workflowRow
  /\ UNCHANGED <<body, notD>>

\* PUT /workflows/:id with a definition in the body
updateWorkflow ==
  /\ outcome = "none"
  /\ workflowRow # NoWorkflow
  /\ IF validateDefinitionGraph(body)
       THEN /\ workflowRow' = [definition |-> body,
                                version |-> workflowRow.version + 1]
            /\ outcome' = "updated"
       ELSE /\ outcome' = "VALIDATION_ERROR"
            /\ UNCHANGED workflowRow
  /\ UNCHANGED <<body, notD>>

(* ============================ site pages =============================== *)
SitePages == {"home", "about", "contact"}

SInit ==
  /\ pages = [q \in SitePages |-> "none"]
  /\ publishResult = "none"

\* what the pages routes change is the site's Page rows only
PagesFrame ==
  UNCHANGED <<publishResult, wvars, bvars, pvars, avars, dvars, rvars, gvars,
              kvars>>

\* POST /:id/pages: isPublished is taken from the body (default true)
createPage ==
  /\ \E q \in SitePages, isPublished \in BOOLEAN :
       /\ pages[q] = "none"
       /\ pages' = [pages EXCEPT ![q] = IF isPublished THEN "published" ELSE "draft"]
  /\ PagesFrame

\* PUT /:id/pages/:pageId with isPublished in the body
updatePage ==
  /\ \E q \in SitePages, isPublished \in BOOLEAN :
       /\ pages[q] # "none"
       /\ pages' = [pages EXCEPT ![q] = IF isPublished THEN "published" ELSE "draft"]
  /\ PagesFrame

\* DELETE /:id/pages/:pageId
deletePage ==
  /\ \E q \in SitePages :
       /\ pages[q] # "none"
       /\ pages' = [pages EXCEPT ![q] = "none"]
  /\ PagesFrame

\* a count of the published pages only
PublishedPageCount == Cardinality({q \in SitePages : pages[q] = "published"})

\* site._count.pages as the publish route reads it
PageCount == Cardinality({q \in SitePages : pages[q] # "none"})

\* POST /:id/publish: ValidationError for a site without pages, else
\* triggerBuild creates the version and its build job and enqueues the job
publish ==
  /\ IF PageCount = 0
       THEN /\ publishResult' = "VALIDATION_ERROR"
            /\ UNCHANGED <<versionStatus, jobStatus, buildQueue>>
       ELSE /\ nextVersion \in Versions
            /\ versionStatus' = [versionStatus EXCEPT ![nextVersion] = "BUILDING"]
            /\ jobStatus' = [jobStatus EXCEPT ![nextVersion] = "QUEUED"]
            /\ buildQueue' = buildQueue \cup {nextVersion}
            /\ publishResult' = "QUEUED"
  /\ UNCHANGED <<pages, activeVersionId, jobRetryCount, attemptsMade, builds,
                 buildRedelivered, rollbackPc, rollbackTarget, rollbackSeen,
                 rollbacks, s3, siteCache, lastServe,
                 wvars, pvars, avars, dvars, rvars, gvars, kvars>>

(* ============================== renderer =============================== *)
\* the characters of a user-supplied string, and its greatest length
Chars == {"a", "&", "<", "'"}
MaxLen == 2
Strings == UNION {[1 .. n -> Chars] : n \in 0 .. MaxLen}

RInit ==
  /\ title \in Strings
  /\ theme \in [primaryColor : Strings, fontHeading : Strings]
  /\ html = << >>

\* String.prototype.replace with a global pattern of one character
RECURSIVE ReplaceAll(_, _, _)
ReplaceAll(str, ch, entity) ==
  IF str = << >> THEN << >>
  ELSE (IF Head(str) = ch THEN entity ELSE <<Head(str)>>)
         \o ReplaceAll(Tail(str), ch, entity)

escapeHtml(str) ==
  ReplaceAll(
    ReplaceAll(
      ReplaceAll(
        ReplaceAll(
          ReplaceAll(str, "&", <<"&", "a", "m", "p", ";">>),
          "<", <<"&", "l", "t", ";">>),
        ">", <<"&", "g", "t", ";">>),
      "\"", <<"&", "q", "u", "o", "t", ";">>),
    "'", <<"&", "#", "0", "3", "9", ";">>)

\* encodeURIComponent: letters and ' are left as they are
RECURSIVE encodeURIComponent(_)
encodeURIComponent(str) ==
  IF str = << >> THEN << >>
  ELSE (CASE Head(str) = "&" -> <<"%", "2", "6">>
          [] Head(str) = "<" -> <<"%", "3", "C">>
          [] OTHER -> <<Head(str)>>)
         \o encodeURIComponent(Tail(str))

\* generateCSS: the theme values go into the style sheet as they are
generateCSS(t) ==
  <<":root { --color-primary: ">> \o t.primaryColor
    \o <<"; --font-heading: '">> \o t.fontHeading
    \o <<"', system-ui, sans-serif; }">>

\* renderPage for a page without sections of a site without navigation
\* items and footer, whose name is "a"
renderPage ==
  /\ html = << >>
  /\ html' = <<"<head><title>">> \o escapeHtml(title)
               \o <<"</title><meta property=og:title content=">> \o escapeHtml(title)
               \o <<"><link href=https://fonts.googleapis.com/css2?family=">>
               \o encodeURIComponent(theme.fontHeading)
               \o <<":wght@400;600;700 rel=stylesheet><style>">>
               \o generateCSS(theme)
               \o <<"</style></head><body><nav><a href=/ class=site-nav__brand>">>
               \o escapeHtml(<<"a">>)
               \o <<"</a></nav><main></main></body>">>
  /\ UNCHANGED <<title, theme, notR>>

(* --------------------------- specifications --------------------------- *)
\* the workflow engine executing one run; the site builder is at rest
AtRest ==
  /\ body = StoredWorkflow.definition
  /\ workflowRow = NoWorkflow
  /\ outcome = "none"

(* ============================== shutdown =============================== *)
Processes == {"workflow API", "builder API", "step worker", "build worker"}
Apis == {"workflow API", "builder API"}
MaxInFlight == 2
MaxFinished == 2
NoExit == 0 - 1

\* a process that has received no signal
Up ==
  /\ shutdownPc = "running"
  /\ listening = TRUE
  /\ inFlight = 0
  /\ finished = 0
  /\ storeClosed = FALSE
  /\ busClosed = FALSE
  /\ exitCode = NoExit

GInit == proc \in Processes /\ Up

\* the process takes a request or a job
accept ==
  /\ listening
  /\ exitCode = NoExit
  /\ inFlight < MaxInFlight
  /\ inFlight' = inFlight + 1
  /\ UNCHANGED <<proc, shutdownPc, listening, finished, storeClosed, busClosed,
                 exitCode, notG>>

\* a request or a job of the process comes to its end
finish ==
  /\ inFlight > 0
  /\ exitCode = NoExit
  /\ inFlight' = inFlight - 1
  /\ finished' = IF finished < MaxFinished THEN finished + 1 ELSE finished
  /\ UNCHANGED <<proc, shutdownPc, listening, storeClosed, busClosed, exitCode,
                 notG>>

\* SIGTERM or SIGINT, up to the first await of the handler.  An API closes
\* the push bus (the workflow API has one) and calls server.close, which
\* stops the listener and returns at once; a worker calls worker.close(),
\* which stops the consumer and resolves when its active jobs have finished.
signal ==
  /\ shutdownPc = "running"
  /\ listening' = FALSE
  /\ busClosed' = (proc = "workflow API")
  /\ shutdownPc' = IF proc \in Apis THEN "disconnecting" ELSE "closing"
  /\ UNCHANGED <<proc, inFlight, finished, storeClosed, exitCode, notG>>

\* worker.close() resolves; the build worker has nothing more to close
workerClosed ==
  /\ shutdownPc = "closing"
  /\ inFlight = 0
  /\ shutdownPc' = IF proc = "step worker" THEN "disconnecting" ELSE "exiting"
  /\ UNCHANGED <<proc, listening, inFlight, finished, storeClosed, busClosed,
                 exitCode, notG>>

\* the database and Redis handles are closed
disconnect ==
  /\ shutdownPc = "disconnecting"
  /\ storeClosed' = TRUE
  /\ shutdownPc' = "exiting"
  /\ UNCHANGED <<proc, listening, inFlight, finished, busClosed, exitCode, notG>>

\* process.exit(0)
exit ==
  /\ shutdownPc = "exiting"
  /\ exitCode' = 0
  /\ shutdownPc' = "exited"
  /\ UNCHANGED <<proc, listening, inFlight, finished, storeClosed, busClosed,
                 notG>>

(* ============================ artifact keys ============================ *)
PathChars == {"/", "a", "."}
\* the characters \w matches
WordChars == {"a"}
MaxPathLen == 4

\* createPageSchema: the strings that start with "/"
PagePaths ==
  {p \in UNION {[1 .. n -> PathChars] : n \in 1 .. MaxPathLen} : p[1] = "/"}

KInit ==
  /\ pagePath \in PagePaths
  /\ s3Key = << >>
  /\ servedKey = << >>

\* no page path under study
NoPath ==
  /\ pagePath = <<"/">>
  /\ s3Key = << >>
  /\ servedKey = << >>

\* str.slice(1)
Slice1(str) == IF str = << >> THEN << >> ELSE Tail(str)

\* str.replace(/^\/+/, "")
RECURSIVE StripSlashes(_)
StripSlashes(str) ==
  IF str # << >> /\ Head(str) = "/" THEN StripSlashes(Tail(str)) ELSE str

\* /\.\w+$/.test(str)
IsAsset(str) ==
  \E i \in 1 .. Len(str) - 1 :
    /\ str[i] = "."
    /\ \A j \in i + 1 .. Len(str) : str[j] \in WordChars

\* the file of a page: index.html for "/", else the path without its first
\* character, followed by /index.html
PageFile(path) ==
  IF path = <<"/">> THEN <<"index.html">> ELSE Slice1(path) \o <<"/", "index.html">>

\* executeBuild: the key of a page, after the prefix
BuildKey(path) == <<"/">> \o PageFile(path)

\* resolveSite: the key for a path, after the prefix
ResolvedKey(path) ==
  LET normalizedPath == IF path # << >> /\ Head(path) = "/" THEN path ELSE <<"/">> \o path
  IN IF IsAsset(normalizedPath) THEN normalizedPath
     ELSE <<"/">> \o PageFile(normalizedPath)

\* handleServe: the path it passes to resolveSite for the request of the
\* URL /serve/:subdomain followed by url
PagePathOf(url) ==
  LET rawPath == StripSlashes(Slice1(url))
  IN IF rawPath = << >> THEN <<"/">> ELSE <<"/">> \o rawPath

\* executeBuild renders the page and uploads it
uploadPage ==
  /\ s3Key = << >>
  /\ s3Key' = BuildKey(pagePath)
  /\ UNCHANGED <<pagePath, servedKey, notK>>

\* a request of the page's path is served from the built version
servePage ==
  /\ s3Key # << >>
  /\ servedKey = << >>
  /\ servedKey' = ResolvedKey(PagePathOf(pagePath))
  /\ UNCHANGED <<pagePath, s3Key, notK>>

\* nothing to render
NoRender ==
  /\ title = << >>
  /\ theme = [primaryColor |-> << >>, fontHeading |-> << >>]
  /\ html = << >>

\* the workflow API, up
Serving == proc = "workflow API" /\ Up /\ NoPath

Init == WInit /\ BInit /\ PInit /\ AInit /\ AtRest /\ SInit /\ NoRender /\ Serving

Next ==
  \/ StartRunCreate
  \/ StartRunEnqueue
  \/ Deliver
  \/ Redeliver
  \/ StartStep
  \/ ExecSuccess
  \/ ExecError
  \/ CheckComplete
  \/ CompleteRun
  \/ HandleStepError
  \/ FailRun
  \/ Emit
  \/ CancelCheck
  \/ CancelTxn

Spec == Init /\ [][Next]_vars

\* the site builder working on one site; the workflow engine is at rest
BuilderInit ==
  WInit /\ wf = "linear" /\ BInit /\ PInit /\ AInit /\ AtRest /\ SInit /\ NoRender
    /\ Serving

BuilderNext ==
  \/ triggerBuild
  \/ BuildDeliver
  \/ BuildRedeliver
  \/ executeBuildBegin
  \/ uploadFile
  \/ executeBuildActivate
  \/ executeBuildFail
  \/ processBuildJobCatch
  \/ rollbackRead
  \/ rollbackTxn
  \/ resolveSite
  \/ Tick

BuilderSpec == BuilderInit /\ [][BuilderNext]_vars

\* the push bus with two clients; the engine and the builder are at rest
PushNext ==
  \/ handleConnection
  \/ handleClose
  \/ subscribe
  \/ unsubscribe
  \/ broadcast
  \/ heartbeat
  \/ pong

PushSpec == BuilderInit /\ [][PushNext]_vars

\* API requests of sessions of two tenants; everything else is at rest
ApiNext ==
  \/ workflowRoute
  \/ runRoute
  \/ siteRoute
  \/ rollbackRoute
  \/ pageRoute

ApiSpec == BuilderInit /\ [][ApiNext]_vars

\* one create or update request per body that passes the schema
ValidationInit ==
  WInit /\ wf = "linear" /\ BInit /\ PInit /\ AInit /\ DInit /\ SInit /\ NoRender
    /\ Serving

ValidationNext ==
  \/ createWorkflow
  \/ updateWorkflow

ValidationSpec == ValidationInit /\ [][ValidationNext]_vars

\* the pages of a site are edited and the site is published; no build runs
PublishNext ==
  \/ createPage
  \/ updatePage
  \/ deletePage
  \/ publish

PublishSpec == BuilderInit /\ [][PublishNext]_vars

\* the parts other than the workflow engine, at rest
Idle == BInit /\ PInit /\ AInit /\ AtRest /\ SInit /\ NoRender /\ Serving

\* runs of the workflows whose condition cannot be evaluated
ConditionInit == wf \in ConditionWorkflowIds /\ NotStarted /\ Idle

ConditionSpec == ConditionInit /\ [][Next]_vars

\* runs of the workflows with DELAY nodes; no executor of theirs throws
DelayInit == wf \in {"delay", "delays"} /\ NotStarted /\ Idle

DelayNext ==
  \/ StartRunCreate
  \/ StartRunEnqueue
  \/ Deliver
  \/ Redeliver
  \/ StartStep
  \/ ExecSuccess
  \/ CheckComplete
  \/ CompleteRun
  \/ Emit
  \/ CancelCheck
  \/ CancelTxn

DelaySpec == DelayInit /\ [][DelayNext]_vars

\* a run of the workflow a -> b -> c whose definition is updated meanwhile
UpdateInit == wf = "linear" /\ NotStarted /\ Idle

\* every job is delivered once and nobody cancels
UpdateNext ==
  \/ StartRunCreate
  \/ StartRunEnqueue
  \/ Deliver
  \/ StartStep
  \/ ExecSuccess
  \/ ExecError
  \/ CheckComplete
  \/ CompleteRun
  \/ HandleStepError
  \/ FailRun
  \/ Emit
  \/ updateDefinition
  \/ NodeMissing

UpdateSpec == UpdateInit /\ [][UpdateNext]_vars

\* the four processes and their shutdown handlers
ShutdownInit ==
  WInit /\ wf = "linear" /\ BInit /\ PInit /\ AInit /\ AtRest /\ SInit /\ NoRender
    /\ GInit /\ NoPath

ShutdownNext ==
  \/ accept
  \/ finish
  \/ signal
  \/ workerClosed
  \/ disconnect
  \/ exit

ShutdownSpec == ShutdownInit /\ [][ShutdownNext]_vars

\* a published page is built and then requested
KeyInit ==
  WInit /\ wf = "linear" /\ BInit /\ PInit /\ AInit /\ AtRest /\ SInit /\ NoRender
    /\ proc = "workflow API" /\ Up /\ KInit

KeyNext == uploadPage \/ servePage

KeySpec == KeyInit /\ [][KeyNext]_vars

\* one page is rendered for every title and theme
RenderInit ==
  WInit /\ wf = "linear" /\ BInit /\ PInit /\ AInit /\ AtRest /\ SInit /\ RInit
    /\ Serving

RenderNext == renderPage

RenderSpec == RenderInit /\ [][RenderNext]_vars

(* ======================= claims: workflow engine ======================= *)
\* startRun has returned, no job is queued, no processStep invocation and no
\* cancel request is in progress: nothing is left that could act on the run
Quiescent ==
  /\ startPc = "done"
  /\ queue = EmptyBag
  /\ inflight = EmptyBag
  /\ cancelPc = "idle"

\* every job is delivered once and nobody cancels
PlainRun == redelivered = 0 /\ cancels = 0

RunRank(status) ==
  CASE status = "NONE" -> 0
    [] status = "PENDING" -> 1
    [] status = "RUNNING" -> 2
    [] OTHER -> 3

\* C1: once startRun has returned, the run status only moves forward along
\* PENDING -> RUNNING -> terminal, and a COMPLETED, FAILED or CANCELLED run
\* never changes status again, whatever operation comes later
C1_RunStatusMonotonic ==
  [][startPc = "done" =>
       /\ RunRank(runStatus') >= RunRank(runStatus)
       /\ (runStatus \in TerminalRun => runStatus' = runStatus)]_vars

\* C3: however often the job of a step is delivered, the executor of the step
\* runs at most once per attempt (step key, retryCount)
C3_ExecutorOncePerAttempt ==
  \A k \in Keys : \A r \in 0 .. maxRetries : execs[k][r] <= 1

\* C4: in a COMPLETED run every step is COMPLETED, SKIPPED or FAILED (stated
\* for the runs in which every job is delivered once and nobody cancels)
C4_CompletedRunHasTerminalSteps ==
  (PlainRun /\ runStatus = "COMPLETED") =>
     \A s \in def.nodes : stepStatus[s] \in TerminalStep

\* C5: a started run does not come to rest in RUNNING: when no job is queued
\* and no step job is in progress, the run has reached a terminal status
\* (stated for the runs in which every job is delivered once and nobody cancels)
C5_NoRunStuckRunning ==
  (PlainRun /\ Quiescent) => runStatus \in TerminalRun

\* C6: no run is COMPLETED while one of its steps is FAILED (stated for the
\* runs in which every job is delivered once and nobody cancels)
C6_FailedStepNeverCompletedRun ==
  PlainRun => ~(runStatus = "COMPLETED" /\ \E s \in def.nodes : stepStatus[s] = "FAILED")

\* C7: when the run comes to rest after a cancel that followed startRun and
\* caught the DELAY step PENDING or RUNNING, the run is CANCELLED, the DELAY
\* step is SKIPPED, one run.cancelled event is logged and no step is PENDING
\* or RUNNING
C7_CancelDuringDelay ==
  (Quiescent /\ redelivered = 0 /\ cancelSeen.started
             /\ \E k \in cancelSeen.skipped : def.type[k] = "DELAY") =>
     /\ runStatus = "CANCELLED"
     /\ \A k \in cancelSeen.skipped : def.type[k] = "DELAY" => stepStatus[k] = "SKIPPED"
     /\ evCount["run.cancelled"] = 1
     /\ \A s \in def.nodes : stepStatus[s] \notin {"PENDING", "RUNNING"}

\* executor invocations of step k over all its attempts
ExecTotal(k) == execs[k][0] + execs[k][1] + execs[k][2] + execs[k][3]

\* C8: for a step whose executor errors on every attempt: retryCount never
\* exceeds maxRetries; when the step is FAILED it was executed exactly
\* maxRetries + 1 = 4 times; and when the run comes to rest with the step
\* FAILED, the run is FAILED with the error of the last attempt and no step is
\* left PENDING
C8_RetriesThenFail ==
  \A k \in def.down :
    /\ retryCount[k] <= maxRetries
    /\ stepStatus[k] = "FAILED" => ExecTotal(k) = maxRetries + 1
    /\ (Quiescent /\ stepStatus[k] = "FAILED") =>
          /\ runStatus = "FAILED"
          /\ runError = [kind |-> "failed", step |-> k, attempt |-> maxRetries]
          /\ \A s \in def.nodes : stepStatus[s] # "PENDING"

\* the delays of the first, second and third retry for a base delay of 1000 ms
ExpectedDelay == <<1000, 2000, 4000>>

\* C9: the k-th retry of a step is announced and enqueued with the delay
\* baseDelay * 2^(k-1), that is 1000, 2000, 4000 ms for k = 1, 2, 3; there is
\* no retry with k > maxRetries; and a step whose retryCount is k went
\* through the k-th retry
C9_RetryBackoff ==
  /\ \A e \in retryEvents :
       /\ e[2] \in 1 .. maxRetries
       /\ e[3] = ExpectedDelay[e[2]]
  /\ \A j \in BagToSet(queue) :
       j.delay = 0 \/ \E e \in retryEvents : e[1] = j.stepKey /\ e[3] = j.delay
  /\ \A k \in Keys :
       retryCount[k] > 0 =>
         <<k, retryCount[k], ExpectedDelay[retryCount[k]]>> \in retryEvents

\* C9 witness: a step went through all three retries, the third one waiting
\* 4000 ms, and failed for good on the next error
C9_Witness ==
  \E k \in def.nodes :
    /\ stepStatus[k] = "FAILED"
    /\ {<<k, 1, 1000>>, <<k, 2, 2000>>, <<k, 3, 4000>>} \subseteq retryEvents

(* ========================= claims: site builder ======================== *)
\* C2: whenever activeVersionId is set it references a version of the site
\* whose status is READY, under every interleaving of publishes, build
\* executions (failed, retried and delivered twice) and rollbacks
C2_ActiveVersionIsReady ==
  activeVersionId # 0 => versionStatus[activeVersionId] = "READY"

\* C10: a serve request of the subdomain is answered from the version that
\* is the active one when the request starts: after a pointer flip by a build
\* or a rollback no request is answered from the previous version
C10_ServeFollowsPointerFlip ==
  lastServe.version = lastServe.active

\* C11: the active version always has every one of its artifacts (its pages,
\* 404.html, manifest.json) stored under its prefix: a version whose uploads
\* are still going on or stopped part-way is never the active one
C11_ActiveVersionFullyUploaded ==
  activeVersionId # 0 => s3[activeVersionId] = NumArtifacts

\* C11 witness: a version is active while the build of another version has
\* failed with only a part of its artifacts uploaded
C11_Witness ==
  /\ activeVersionId # 0
  /\ \E v \in Versions :
       /\ v # activeVersionId
       /\ versionStatus[v] = "FAILED"
       /\ s3[v] \in 1 .. NumArtifacts - 1

\* an execution of the build of version v fails in this step
BuildFails(v) ==
  \E r \in BuildsAt("upload") :
    r.job = v /\ builds' = BuildGoto(r, "catch", r.siteActive, r.done)

\* C12: when a build execution fails, at an upload or at the activation
\* transaction, its version and its job become FAILED, and activeVersionId
\* and the status of every other version stay as they are
C12_FailedBuildFrame ==
  [][\A v \in Versions :
       BuildFails(v) =>
         /\ versionStatus'[v] = "FAILED"
         /\ jobStatus'[v] = "FAILED"
         /\ activeVersionId' = activeVersionId
         /\ \A u \in Versions \ {v} : versionStatus'[u] = versionStatus[u]]_vars

\* C12 witness: the build of a version has failed at the activation
\* transaction while another version is active and READY
C12_Witness ==
  \E r \in BuildsAt("catch") :
    /\ r.done = NumArtifacts
    /\ versionStatus[r.job] = "FAILED"
    /\ activeVersionId \notin {0, r.job}
    /\ versionStatus[activeVersionId] = "READY"

\* the rollback transaction commits in this step
RollbackCommits == rollbackPc = "txn" /\ rollbackPc' = "idle"

\* C14: a rollback that was accepted ends with activeVersionId = target, the
\* target READY and the version that was active before it, if there is one
\* other than the target, SUPERSEDED (stated for the runs in which no build
\* job is delivered twice)
C14_RollbackResult ==
  [][(RollbackCommits /\ buildRedelivered = 0) =>
       /\ activeVersionId' = rollbackTarget
       /\ versionStatus'[rollbackTarget] = "READY"
       /\ activeVersionId \notin {0, rollbackTarget} =>
            versionStatus'[activeVersionId] = "SUPERSEDED"]_vars

\* a rollback request is validated in this step
RollbackValidated == rollbacks' # rollbacks

VersionStep(old, new) ==
  \/ old = new
  \/ old = "NONE" /\ new = "BUILDING"
  \/ old = "BUILDING" /\ new \in {"READY", "FAILED"}
  \/ old = "READY" /\ new = "SUPERSEDED"
  \/ old = "SUPERSEDED" /\ new = "READY"

\* C16: the status of a version only changes along BUILDING -> READY,
\* BUILDING -> FAILED, READY -> SUPERSEDED and SUPERSEDED -> READY; a FAILED
\* version never becomes READY through a retried build job (stated for the
\* runs in which no build job is delivered twice)
C16_VersionStatusTransitions ==
  [][buildRedelivered = 0 =>
       \A v \in Versions : VersionStep(versionStatus[v], versionStatus'[v])]_vars

(* =========================== claims: push bus ========================== *)
\* C17: an event of run r is sent only to clients that are subscribed to r
\* at that moment and whose tenant is the tenant owning r
C17_BroadcastWithinTenant ==
  [][lastBroadcast' # lastBroadcast =>
       \A c \in lastBroadcast'.recipients :
         /\ lastBroadcast'.runId \in clients[c].subscribedRuns
         /\ RunTenant(lastBroadcast'.runId) = ClientTenant(c)]_vars

(* ========================= claims: API routes ========================== *)
\* C18: an API request of a session of tenant T returns only rows owned by T
\* and modifies only rows owned by T, and a request that addresses a row of
\* another tenant is answered NOT_FOUND
C18_TenantIsolation ==
  /\ \A row \in response.rows : Owner(row) = response.tenant
  /\ \A w \in writes : Owner(w[2]) = w[1]
  /\ (\E row \in response.addressed : Owner(row) # response.tenant) =>
        response.status = "NOT_FOUND"

\* C18 witness: a session was refused a rollback that addressed its own site
\* with a version of another tenant's site, after it had modified rows of
\* its own
C18_Witness ==
  /\ response.status = "NOT_FOUND"
  /\ \E id \in SiteRows, v \in VersionRows :
       /\ response.addressed = {id, v}
       /\ SiteTenant(id) = response.tenant
       /\ Owner(v) # response.tenant
  /\ \E w \in writes : w[1] = response.tenant

(* ================= claims: workflow definition validation ============== *)
\* where a run can go from node k: edges, next and, for a CONDITION node,
\* its branches
Successors(definition, k) ==
  LET node == definition.nodes[k] IN
    ({edge[2] : edge \in {e \in definition.edges : e[1] = k}}
       \cup node.next
       \cup (IF node.type = "CONDITION"
               THEN {node.trueBranch, node.falseBranch} \ {NoKey} ELSE {}))
      \cap DOMAIN definition.nodes

RECURSIVE ReachFrom(_, _, _)
ReachFrom(definition, S, n) ==
  IF n = 0 THEN S
  ELSE ReachFrom(definition,
                 S \cup UNION {Successors(definition, k) : k \in S}, n - 1)

HasCycle(definition) ==
  \E k \in DOMAIN definition.nodes :
    k \in ReachFrom(definition, Successors(definition, k),
                    Cardinality(DOMAIN definition.nodes))

\* C19: every persisted workflow definition is acyclic (create and update
\* reject a definition whose graph has a cycle)
C19_PersistedDefinitionAcyclic ==
  workflowRow # NoWorkflow => ~HasCycle(workflowRow.definition)

\* the violations named by the validation rules
UnknownReference(definition) ==
  LET keys == DOMAIN definition.nodes IN
    \/ definition.entrypoint \notin keys
    \/ \E e \in definition.edges : e[1] \notin keys \/ e[2] \notin keys
    \/ \E k \in keys : definition.nodes[k].next \ keys # {}
    \/ \E k \in keys : definition.nodes[k].id # k
    \/ \E k \in keys :
         /\ definition.nodes[k].type = "CONDITION"
         /\ {definition.nodes[k].trueBranch, definition.nodes[k].falseBranch}
              \ (keys \cup {NoKey}) # {}

\* C20: a create or update whose definition has an unknown entrypoint, edge
\* end, next key or condition branch, or a node id unlike its key, ends in
\* VALIDATION_ERROR and persists nothing; any other definition is accepted
\* and persisted
C20_ValidationRules ==
  [][outcome' # outcome =>
       IF UnknownReference(body)
         THEN outcome' = "VALIDATION_ERROR" /\ workflowRow' = workflowRow
         ELSE /\ outcome' \in {"created", "updated"}
              /\ workflowRow'.definition = body]_vars

\* C20 witness: an update was rejected, the stored workflow is as it was,
\* and the only thing wrong with the body is the target of a condition
\* branch
C20_Witness ==
  /\ outcome = "VALIDATION_ERROR"
  /\ workflowRow = StoredWorkflow
  /\ body.entrypoint \in DOMAIN body.nodes
  /\ body.edges = {}
  /\ \A k \in DOMAIN body.nodes :
       body.nodes[k].id = k /\ body.nodes[k].next \subseteq DOMAIN body.nodes
  /\ \E k \in DOMAIN body.nodes :
       body.nodes[k].type = "CONDITION" /\ body.nodes[k].falseBranch = "x"

(* ================ claims: workflow engine, branches and events ========= *)
\* a job of step k is queued or in progress, or k has been executed
Touched(k) ==
  \/ ExecTotal(k) > 0
  \/ \E j \in BagToSet(queue) : j.stepKey = k
  \/ \E r \in BagToSet(inflight) : r.stepKey = k

\* C21: after a CONDITION step (a, with branches b and c) only the selected
\* branch is enqueued and executed, whatever a.next lists; when the selected
\* branch has finished the run is COMPLETED and the step of the other branch
\* is SKIPPED (stated for the runs in which every job is delivered once and
\* nobody cancels)
C21_OnlySelectedBranchRuns ==
  (wf \in {"cond", "condnext"} /\ PlainRun) =>
     /\ ~(Touched("b") /\ Touched("c"))
     /\ (Quiescent /\ stepStatus["a"] = "COMPLETED") =>
          /\ runStatus = "COMPLETED"
          /\ \A k \in {"b", "c"} : ExecTotal(k) = 0 => stepStatus[k] = "SKIPPED"

C23_LinearRun ==
  (wf = "linear" /\ PlainRun) =>
     /\ stepStatus["b"] \in {"RUNNING", "COMPLETED"} => stepStatus["a"] = "COMPLETED"
     /\ stepStatus["c"] \in {"RUNNING", "COMPLETED"} => stepStatus["b"] = "COMPLETED"
     /\ Quiescent =>
          /\ runStatus = "COMPLETED"
          /\ runOutput = "c"
          /\ evCount = [t \in RunEventTypes |->
                          IF t \in {"run.started", "run.completed"} THEN 1 ELSE 0]
          /\ \A k \in def.nodes :
               /\ stepStatus[k] = "COMPLETED"
               /\ stepEvents["step.started"][k] = 1
               /\ stepEvents["step.completed"][k] = 1
               /\ stepEvents["step.failed"][k] = 0

\* C23 witness: the linear run has come to rest COMPLETED
C23_Witness ==
  /\ wf = "linear"
  /\ PlainRun
  /\ Quiescent
  /\ runStatus = "COMPLETED"
  /\ stepEvents["step.completed"]["c"] = 1

\* C24: an event is on the push bus only when its record is in the event
\* log and the transition it reports is stored
C24_BroadcastAfterPersist ==
  /\ \A k \in Keys :
       /\ busStep["step.started"][k] > 0 =>
            stepEvents["step.started"][k] > 0 /\ stepStatus[k] # "PENDING"
       /\ busStep["step.completed"][k] > 0 => stepEvents["step.completed"][k] > 0
       /\ busStep["step.failed"][k] > 0 => stepEvents["step.failed"][k] > 0
  /\ \A t \in BusRunEventTypes : busRun[t] > 0 => evCount[t] > 0

\* the jobs the gate is to drop
Droppable(k) ==
  \/ stepStatus[k] \in {"NONE", "COMPLETED", "SKIPPED"}
  \/ runStatus \in {"NONE", "CANCELLED", "FAILED"}

\* C28: the delivery of a job whose step is COMPLETED or SKIPPED or absent,
\* or whose run is CANCELLED or FAILED or absent, changes no step and no run
\* field, appends no event, broadcasts nothing, starts no execution and
\* enqueues nothing
C28_DroppedJobNoEffect ==
  [][(\/ \E j \in BagToSet(queue) :
           queue' = queue (-) SetToBag({j}) /\ Droppable(j.stepKey)
      \/ /\ redelivered' # redelivered
         /\ \A r \in At("exec") : Droppable(r.stepKey))
     => UNCHANGED <<runStatus, runError, runOutput, stepStatus, retryCount,
                    inflight, execs, evCount, stepEvents, retryEvents,
                    busStep, busRun>>]_vars

\* C28 witness: in the linear workflow a completed and enqueued b, the run
\* was cancelled, and the job of b has been taken from the queue without b
\* ever being started
C28_Witness ==
  /\ wf = "linear"
  /\ redelivered = 0
  /\ runStatus = "CANCELLED"
  /\ stepStatus["a"] = "COMPLETED"
  /\ stepStatus["b"] = "SKIPPED"
  /\ queue = EmptyBag
  /\ inflight = EmptyBag
  /\ ExecTotal("b") = 0
  /\ busStep["step.started"]["b"] = 0

\* the step transitions of the state machine
StepTransitions ==
  {<<"NONE", "PENDING">>, <<"PENDING", "RUNNING">>, <<"RUNNING", "COMPLETED">>,
   <<"RUNNING", "FAILED">>, <<"RUNNING", "SKIPPED">>, <<"PENDING", "SKIPPED">>}

\* C29: a step status changes only along PENDING -> RUNNING, RUNNING ->
\* COMPLETED, FAILED or SKIPPED, and PENDING -> SKIPPED
C29_StepStatusTransitions ==
  [][\A k \in Keys :
       stepStatus'[k] # stepStatus[k] =>
         <<stepStatus[k], stepStatus'[k]>> \in StepTransitions]_vars

\* C30: when the run has come to rest in a terminal status reached by the
\* worker, its terminal event has been broadcast: run.completed for a
\* COMPLETED run, step.failed and run.failed for a FAILED run (stated for the
\* runs in which every job is delivered once and nobody cancels)
C30_TerminalEventBroadcast ==
  (PlainRun /\ Quiescent) =>
     /\ runStatus = "COMPLETED" => busRun["run.completed"] > 0
     /\ runStatus = "FAILED" =>
          /\ busRun["run.failed"] > 0
          /\ \E k \in def.nodes : busStep["step.failed"][k] > 0

(* ===================== claims: serving, publishing ===================== *)
\* C26: a serve request for a path without an artifact is answered with the
\* body of 404.html and status 404, or with a 404 error when there is no
\* 404.html; a request for an existing page is answered with status 200 from
\* the active version
C26_ServeStatus ==
  /\ lastServe.path = "/missing" => lastServe.body \in {"404.html", "error"}
  /\ lastServe.body \in {"404.html", "error"} => lastServe.status = 404
  /\ lastServe.body = "page" =>
       lastServe.status = 200 /\ lastServe.version = lastServe.active

\* C25: a publish request for a site without a published page is answered
\* VALIDATION_ERROR and creates no version and no build job
C25_PublishNeedsPublishedPage ==
  [][((publishResult' # publishResult \/ versionStatus' # versionStatus)
        /\ PublishedPageCount = 0)
     => /\ publishResult' = "VALIDATION_ERROR"
        /\ UNCHANGED <<versionStatus, jobStatus, buildQueue>>]_vars

(* ========================== claims: renderer =========================== *)
Occurs(sub, str) ==
  \E i \in 1 .. (Len(str) - Len(sub) + 1) : SubSeq(str, i, i + Len(sub) - 1) = sub

\* the strings the user supplied for the page
Supplied == {title, theme.primaryColor, theme.fontHeading}

\* C27: the rendered page holds no literal occurrence of a supplied string
\* that contains <, >, " or '
C27_SuppliedStringsEscaped ==
  html # << >> =>
    \A str \in Supplied :
      (\E i \in 1 .. Len(str) : str[i] \in {"<", ">", "\"", "'"}) => ~Occurs(str, html)

(* ================ claims: workflow engine, step context ================ *)
\* the nodes a node leads to: its next keys and, for a CONDITION, its branches
Leads(k) ==
  def.next[k] \cup
    (IF def.type[k] = "CONDITION" THEN {def.trueBranch, def.falseBranch} \ {NoKey} ELSE {})

\* the nodes from which S is reached in at most n steps of the graph
RECURSIVE LeadTo(_, _)
LeadTo(S, n) ==
  IF n = 0 THEN S
  ELSE LeadTo(S \cup {j \in def.nodes : Leads(j) \cap S # {}}, n - 1)

\* the predecessors of node k in the graph
Predecessors(k) == LeadTo({j \in def.nodes : k \in Leads(j)}, Cardinality(Keys))

\* C31: the context an executor is given holds steps[k] only for steps k
\* that are predecessors of its node: the output of a completed step on an
\* independent parallel branch is not in it.
C31_ContextOfPredecessors ==
  PlainRun =>
    \A r \in At("exec") : r.context \subseteq Predecessors(r.stepKey)

(* ============== claims: workflow engine, condition steps =============== *)
\* C32: a CONDITION step whose expression cannot be evaluated (malformed, or
\* throwing on a missing value) selects falseBranch: the step (a, with
\* trueBranch b and falseBranch c) is never retried nor FAILED, b is never
\* enqueued, and once a is COMPLETED c has been enqueued; only with a missing
\* expression is the step an error, and then it is never COMPLETED (stated
\* for the runs in which every job is delivered once and nobody cancels)
C32_UnevaluableConditionIsFalse ==
  PlainRun =>
    /\ wf \in {"condbad", "condthrows"} =>
          /\ retryCount["a"] = 0
          /\ stepStatus["a"] # "FAILED"
          /\ retryEvents = {}
          /\ ~Touched("b")
          /\ (stepStatus["a"] = "COMPLETED" => Touched("c"))
    /\ wf = "condmissing" =>
          /\ stepStatus["a"] # "COMPLETED"
          /\ ~Touched("b") /\ ~Touched("c")

\* a malformed condition has completed and its false branch has run
C32_Witness ==
  /\ wf = "condbad" /\ PlainRun
  /\ stepStatus["a"] = "COMPLETED"
  /\ stepStatus["c"] = "COMPLETED"

(* ================ claims: workflow engine, delay steps ================== *)
\* the invocations that are inside the executor of a DELAY node, waiting
Delaying == {r \in At("exec") : def.type[r.stepKey] = "DELAY"}

\* C33: a DELAY step holds no worker slot while it waits: when as many steps
\* are delayed as the worker has slots and another job is ready in the
\* queue, a slot is free to take it
C33_DelayHoldsNoSlot ==
  (PlainRun /\ Cardinality(Delaying) = NumWorkers /\ queue # EmptyBag)
    => BagCardinality(inflight) < NumWorkers

(* ======================= claims: push bus heartbeat ==================== *)
\* C34: at a heartbeat tick a connection that has not answered the ping of
\* the previous tick is terminated and removed from the clients, so that no
\* broadcast reaches it; a connection with no ping unanswered, be it new or
\* one that answered, stays with its subscriptions
C34_HeartbeatTerminatesUnanswered ==
  [][heartbeat =>
       \A c \in ClientIds :
         clients[c].connected =>
           IF clients[c].pingPending
             THEN /\ ~clients'[c].connected
                  /\ \A r \in RunIds : r \notin clients'[c].subscribedRuns
             ELSE /\ clients'[c].connected
                  /\ clients'[c].subscribedRuns = clients[c].subscribedRuns]_vars

\* after a tick, one connection has its ping unanswered and another one,
\* subscribed to a run, has answered
C34_Witness ==
  /\ clients["c1"].connected /\ clients["c1"].pingPending
  /\ clients["c2"].connected /\ ~clients["c2"].pingPending
  /\ clients["c2"].subscribedRuns # {}

(* =========================== claims: shutdown ========================== *)
\* C35: after SIGTERM or SIGINT a process closes its store handles, and
\* exits, only when none of its requests or jobs is in flight any more
C35_DrainBeforeClose ==
  (storeClosed \/ exitCode # NoExit) => inFlight = 0

(* ================== claims: run and definition update ================== *)
\* C36: a run executes against the definition it was started on, also when
\* the workflow's definition is updated meanwhile: every job in the queue is
\* for a node of that definition and finds its Step record, and every step
\* being executed is a node of it
C36_RunKeepsItsDefinition ==
  startedOn # NoKey =>
    /\ \A j \in BagToSet(queue) :
         /\ j.stepKey \in Definition(startedOn).nodes
         /\ stepStatus[j.stepKey] # "NONE"
    /\ \A r \in BagToSet(inflight) : r.stepKey \in Definition(startedOn).nodes

(* ====================== claims: concurrent builds ====================== *)
\* C37: when the builds of two versions of the site have both succeeded, in
\* whichever order they finished, the active version is the one with the
\* higher number (stated for builds that succeed at their first attempt,
\* with no duplicate delivery and no rollback)
C37_NewestBuildWins ==
  (/\ rollbacks = 0
   /\ buildRedelivered = 0
   /\ \A v \in Versions : attemptsMade[v] = 0 /\ jobStatus[v] = "COMPLETED")
    => activeVersionId = MaxVersions

(* ===================== claims: terminal run events ===================== *)
\* C38: at most one terminal event (run.completed, run.failed or
\* run.cancelled) is appended to the event log of a run, so completeRun is
\* performed at most once (stated for the runs in which every job is
\* delivered once and nobody cancels)
C38_OneTerminalEvent ==
  PlainRun =>
    evCount["run.completed"] + evCount["run.failed"] + evCount["run.cancelled"] <= 1

(* ================== claims: duplicate build deliveries ================= *)
\* C39: the delivery of a build job whose BuildJob is COMPLETED performs no
\* build and changes nothing: no execution starts, no artifact is uploaded,
\* no SiteVersion or BuildJob field changes and activeVersionId stays, also
\* after a rollback away from the version the job had built
C39_CompletedJobDropped ==
  [][(\/ \E v \in buildQueue :
           buildQueue' = buildQueue \ {v} /\ jobStatus[v] = "COMPLETED"
      \/ /\ buildRedelivered' # buildRedelivered
         /\ \A r \in BuildsAt("upload") : jobStatus[r.job] = "COMPLETED")
     => UNCHANGED <<activeVersionId, versionStatus, jobStatus, jobRetryCount,
                    attemptsMade, builds, s3>>]_vars

\* C39 witness: the job of version 2 is COMPLETED and waits in the queue
\* once more, a rollback has made version 1 active again, and a slot of the
\* worker is free to take the job
C39_Witness ==
  /\ jobStatus[2] = "COMPLETED"
  /\ 2 \in buildQueue
  /\ rollbacks > 0
  /\ rollbackPc = "idle"
  /\ activeVersionId = 1
  /\ builds = EmptyBag

(* ========================= claims: artifact keys ======================= *)
\* a path whose segments are all non-empty: "/" or no "/" at its end and no
\* two "/" in a row
Segmented(path) ==
  \/ path = <<"/">>
  \/ /\ path[Len(path)] # "/"
     /\ \A i \in 1 .. Len(path) - 1 : ~(path[i] = "/" /\ path[i + 1] = "/")

\* C40: a request of a published page's path fetches the key under which
\* the build uploaded the page, also when the last segment of the path has
\* a dot in it (stated for the paths whose segments are all non-empty)
C40_BuildAndResolverAgree ==
  (Segmented(pagePath) /\ servedKey # << >>) => servedKey = s3Key

====
